---- MODULE Spec2Model ----
(***************************************************************************)
(* The batched shift-reduce tree encoder of recursive.py: the Recursive    *)
(* facade (construction, forward, __getstate__, __setstate__) and the      *)
(* Recursive_ stack machine (forward's mask and stack set-up, the loop     *)
(* over time steps, step's shift and reduce).                              *)
(*                                                                         *)
(* Vectors are terms: Zero is a row of torch.zeros, Emb(w, id) the row id  *)
(* of the embedding table w, Combine(w, l, r) the result of the combine    *)
(* operator with parameters w on l and r.  Two terms are equal only when   *)
(* they were built the same way, so an equality of vectors that holds in   *)
(* the model holds for every embedding table and every combine operator    *)
(* that is a function of its two arguments and its parameters (LSTMOp      *)
(* always, RNNOp with dropout 0., the default, or in eval mode).           *)
(***************************************************************************)
EXTENDS Integers, Sequences, FiniteSets, TLC

VARIABLES
    pc,         \* "start" | "idle" | "loop" | "returned": where the program is
    args,       \* the arguments of the constructor call, [op, nhid]
    objs,       \* objs[o]: the attributes of encoder object o, or NoObj
    saved,      \* the state produced by the last __getstate__, or NoObj
    self,       \* the encoder object of the current (or last) forward call
    input,      \* the batch of the current forward call, one row per sequence
    t,          \* the loop variable of Recursive_.forward
    stack,      \* stack[b][i], b in 1..batch_size, i in 0..stack_height-1
    stack_ptr,  \* stack_ptr[b]
    result,     \* what the last forward call returned, or NoResult
    exc,        \* the exception the last call raised, or "none"
    lstm        \* a call of LSTMOp.forward: its module, arguments and value

vars == <<pc, args, objs, saved, self, input, t, stack, stack_ptr, result, exc,
          lstm>>

(***************************************************************************)
(* Bounds of the model.                                                    *)
(***************************************************************************)
MaxLeaves == 3
MaxBatch == 2

(***************************************************************************)
(* Token ids, as __main__ sets them up.                                    *)
(***************************************************************************)
paren_open == 0
paren_close == 1
padding_idx == 4
Vocab == {2, 3}
HiddenSizes == {3, 4}
Ops == {"RNNOp", "LSTMOp"}

\* the two encoder objects of a run: the constructed one and the one
\* __setstate__ restores
Original == 1
Restored == 2
Objects == {Original, Restored}

NoObj == [absent |-> TRUE]
NoResult == <<"no result">>

(***************************************************************************)
(* Vectors.                                                                *)
(***************************************************************************)
Zero == <<"zero">>
Emb(w, id) == <<"emb", w, id>>
Combine(w, left, right) == <<"op", w, left, right>>

Max(S) == CHOOSE x \in S : \A y \in S : y <= x

(***************************************************************************)
(* The input batches.                                                      *)
(***************************************************************************)
RECURSIVE TreeSeqs(_)
TreeSeqs(n) ==
    IF n = 1 THEN {<<v>> : v \in Vocab}
    ELSE UNION {{<<paren_open>> \o l \o r \o <<paren_close>> :
                    l \in TreeSeqs(k), r \in TreeSeqs(n - k)} : k \in 1..(n - 1)}

\* rows 2 and 3 of the batch of __main__ (row 1, a single token, is a tree
\* of one leaf)
MainRows == {<<0, 0, 2, 3, 1, 0, 2, 2, 1, 1>>, <<0, 2, 0, 3, 0, 2, 3, 1, 1, 1>>}

\* rows that are no bracket tree: empty, a lone open bracket, an open
\* bracket and a token, a tree without its open bracket, a lone close
\* bracket, a token and a close bracket
OtherRows == {<< >>, <<0>>, <<0, 2>>, <<2, 3, 1>>, <<1>>, <<3, 1>>}

Rows == UNION {TreeSeqs(n) : n \in 1..MaxLeaves} \cup MainRows \cup OtherRows

PadTo(row, len) == row \o [i \in 1..(len - Len(row)) |-> padding_idx]

PadAll(rows) ==
    LET len == Max({Len(rows[b]) : b \in DOMAIN rows})
    IN  [b \in DOMAIN rows |-> PadTo(rows[b], len)]

\* the rows that fill a batch around any one row of Rows: a tree of two
\* leaves and row 3 of __main__
Companions == {<<0, 3, 2, 1>>, <<0, 2, 0, 3, 0, 2, 3, 1, 1, 1>>}

Batches ==
    UNION {{PadAll([others EXCEPT ![b] = row]) :
                b \in 1..n, row \in Rows, others \in [1..n -> Companions]} :
           n \in 1..MaxBatch}

(***************************************************************************)
(* Recursive_.forward: sizes and masks.  input is time-major in the code   *)
(* (input[t, b]); the model keeps one row per sequence, so input[t, b] of  *)
(* the code is inp[b][t + 1].                                              *)
(***************************************************************************)
batch_size(inp) == Len(inp)
max_length(inp) == Len(inp[1])
Tok(inp, time, b) == inp[b][time + 1]

length_mask(inp, time, b) == Tok(inp, time, b) # padding_idx
open_mask(inp, time, b) == Tok(inp, time, b) = paren_open
close_mask(inp, time, b) == Tok(inp, time, b) = paren_close
\* a token mask that forgets the open brackets
token_mask_open(inp, time, b) == length_mask(inp, time, b) /\ ~close_mask(inp, time, b)

token_mask(inp, time, b) ==
    length_mask(inp, time, b) /\ ~open_mask(inp, time, b) /\ ~close_mask(inp, time, b)
do_nothing(inp, time) ==
    \A b \in 1..batch_size(inp) : open_mask(inp, time, b) \/ ~length_mask(inp, time, b)

\* a stack with no slot to spare
stack_height_tight(inp) ==
    Max({Cardinality({time \in 0..(max_length(inp) - 1) : token_mask(inp, time, b)}) :
            b \in 1..batch_size(inp)})

stack_height(inp) ==
    Max({Cardinality({time \in 0..(max_length(inp) - 1) : token_mask(inp, time, b)}) :
            b \in 1..batch_size(inp)}) + 1

input_emb(w, inp, time, b) == Emb(w, Tok(inp, time, b))

\* pointers that are kept from the call before when the batch has the same
\* size
KeptStackPtr(inp) ==
    IF DOMAIN stack_ptr = 1..batch_size(inp) THEN stack_ptr
    ELSE [b \in 1..batch_size(inp) |-> 0]

NewStackPtr(inp) == [b \in 1..batch_size(inp) |-> 0]
NewStack(inp) == [b \in 1..batch_size(inp) |-> [i \in 0..(stack_height(inp) - 1) |-> Zero]]

(***************************************************************************)
(* Tensor indexing: an index i of a dimension of size n is in range when   *)
(* -n <= i < n, and a negative index counts from the end.                  *)
(***************************************************************************)
IndexOK(i, n) == -n <= i /\ i < n
Wrap(i, n) == IF i < 0 THEN i + n ELSE i

(***************************************************************************)
(* Recursive_.step.  A machine state is [stack, stack_ptr, exc]; exc is    *)
(* "IndexError" once an index of some row, masked out or not, was out of   *)
(* range, which ends the call.                                             *)
(***************************************************************************)
Rows1(st) == DOMAIN st.stack_ptr
Height(st) == Cardinality(DOMAIN st.stack[1])

\* a reduce mask that also takes the padding positions
is_close_or_padding(inp, time) ==
    [b \in 1..batch_size(inp) |-> close_mask(inp, time, b) \/ ~length_mask(inp, time, b)]

is_token(inp, time) == [b \in 1..batch_size(inp) |-> token_mask(inp, time, b)]
is_close(inp, time) == [b \in 1..batch_size(inp) |-> close_mask(inp, time, b)]
\* a test that is always taken
any_always(mask) == TRUE

any(mask) == \E b \in DOMAIN mask : mask[b]

\* a reduce that writes the parent over the right child
ParentIndexTop(p) == p - 1

\* a reduce that reads its left child one slot too low
LChildIndexLow(p) == p - 3

\* a shift that writes one slot too high
ShiftIndexNext(p) == p + 1

\* the slots step indexes, from the pointer on entry (stack_ptr_)
ShiftIndex(p) == p
RChildIndex(p) == p - 1
LChildIndex(p) == p - 2
ParentIndex(p) == p - 2

\* a shift that moves the pointer by two, a reduce that leaves it
PushTwo(p) == p + 2
PopNone(p) == p

\* the pointer after a shift, line 118, and after a reduce, line 127
Push(p) == p + 1
Pop(p) == p - 1

\* the children handed to the combine operator in the wrong order
self_op_swapped(w, l_child, r_child) == Combine(w, r_child, l_child)

\* self.op(l_child, r_child), line 124
self_op(w, l_child, r_child) == Combine(w, l_child, r_child)

\* stack.index_put((batch_idx, idx), values): a copy of stack with slot
\* idx[b] of every row b replaced by values[b]
index_put(stk, idx, values) ==
    [b \in DOMAIN stk |->
        [stk[b] EXCEPT ![Wrap(idx[b], Cardinality(DOMAIN stk[b]))] = values[b]]]

\* an assignment that forgets the mask
unmasked_assign(x, y, mask) == y

\* x[mask] = y[mask]: the rows of y where mask holds, the rows of x elsewhere
masked_assign(x, y, mask) == [b \in DOMAIN x |-> IF mask[b] THEN y[b] ELSE x[b]]

\* lines 114-118; ptr_ is the pointer on entry
Shift(w, inp, time, st) ==
    LET ptr_ == st.stack_ptr
        mask == is_token(inp, time)
        idx  == [b \in Rows1(st) |-> ShiftIndex(ptr_[b])]
        emb_t == [b \in Rows1(st) |-> input_emb(w, inp, time, b)]
    IN  IF ~any(mask) THEN st
        ELSE IF \E b \in Rows1(st) : ~IndexOK(idx[b], Height(st))
        THEN [st EXCEPT !.exc = "IndexError"]
        ELSE [stack |-> masked_assign(st.stack, index_put(st.stack, idx, emb_t), mask),
              stack_ptr |-> masked_assign(st.stack_ptr, [b \in Rows1(st) |-> Push(ptr_[b])], mask),
              exc |-> st.exc]

\* lines 120-127; st0 is the state on entry of step (its pointer is
\* stack_ptr_), st the state after the shift
Reduce(w, inp, time, st0, st) ==
    LET ptr_ == st0.stack_ptr
        mask == is_close(inp, time)
        ridx == [b \in Rows1(st) |-> RChildIndex(ptr_[b])]
        lidx == [b \in Rows1(st) |-> LChildIndex(ptr_[b])]
        pidx == [b \in Rows1(st) |-> ParentIndex(ptr_[b])]
        r_child == [b \in Rows1(st) |-> st.stack[b][Wrap(ridx[b], Height(st))]]
        l_child == [b \in Rows1(st) |-> st.stack[b][Wrap(lidx[b], Height(st))]]
        parent == [b \in Rows1(st) |-> self_op(w, l_child[b], r_child[b])]
    IN  IF st.exc # "none" \/ ~any(mask) THEN st
        ELSE IF \E b \in Rows1(st) : \/ ~IndexOK(ridx[b], Height(st))
                                     \/ ~IndexOK(lidx[b], Height(st))
                                     \/ ~IndexOK(pidx[b], Height(st))
        THEN [st EXCEPT !.exc = "IndexError"]
        ELSE [stack |-> masked_assign(st.stack, index_put(st.stack, pidx, parent), mask),
              stack_ptr |-> masked_assign(st.stack_ptr, [b \in Rows1(st) |-> Pop(ptr_[b])], mask),
              exc |-> st.exc]

step(w, inp, time, st) == Reduce(w, inp, time, st, Shift(w, inp, time, st))

\* one iteration of the loop of Recursive_.forward, lines 100-105
Iteration(w, inp, time, st) ==
    IF do_nothing(inp, time) THEN st ELSE step(w, inp, time, st)

\* stack[:, 0], line 106
Roots(stk) == [b \in DOMAIN stk |-> stk[b][0]]

(***************************************************************************)
(* Recursive_.forward as a function of the parameters and the batch: the   *)
(* machine after the first k passes of the loop, and the value the call    *)
(* returns.                                                                *)
(***************************************************************************)
Fresh(inp) == [stack |-> NewStack(inp), stack_ptr |-> NewStackPtr(inp), exc |-> "none"]

RECURSIVE Run(_, _, _)
Run(w, inp, k) ==
    IF k = 0 THEN Fresh(inp)
    ELSE LET prev == Run(w, inp, k - 1)
         IN  IF prev.exc # "none" THEN prev ELSE Iteration(w, inp, k - 1, prev)

Raised(e) == <<<<"raised", e>>>>

Encode(w, inp) ==
    LET st == Run(w, inp, max_length(inp))
    IN  IF st.exc = "none" THEN Roots(st.stack) ELSE Raised(st.exc)

(***************************************************************************)
(* The state of the program.                                               *)
(***************************************************************************)
Machine == [stack |-> stack, stack_ptr |-> stack_ptr, exc |-> exc]

\* no call of LSTMOp.forward on its own is under way
NoLSTM == << >>

\* the program before the constructor call
Start ==
    /\ pc = "start"
    /\ args = NoObj
    /\ objs = [o \in Objects |-> NoObj]
    /\ saved = NoObj
    /\ self = Original
    /\ input = << >>
    /\ t = 0
    /\ stack = << >>
    /\ stack_ptr = << >>
    /\ result = NoResult
    /\ exc = "none"

Init == Start /\ lstm = NoLSTM

\* an LSTMOp without its assertion
OpInitNeverFails(op, nhid) == FALSE

\* LSTMOp.__init__, line 19: assert(nhid % 2 == 0)
OpInitFails(op, nhid) == op = "LSTMOp" /\ nhid % 2 # 0

\* the attributes of a constructed encoder, lines 44-54; the parameters of
\* op and of the embedding are created here and are named by the object
\* that created them
NewEncoder(op, nhid) ==
    [op |-> op, hidden_size |-> nhid, weights |-> Original, recurse |-> "scripted"]

\* Recursive(op, vocabulary_size, hidden_size, padding_idx), lines 38-54,
\* called as __main__ calls it: parens_id and dropout keep their defaults
Construct(op, nhid) ==
    /\ pc = "start"
    /\ args' = [op |-> op, nhid |-> nhid]
    /\ pc' = "idle"
    /\ IF OpInitFails(op, nhid)
       THEN /\ exc' = "AssertionError"
            /\ objs' = objs
       ELSE /\ exc' = "none"
            /\ objs' = [objs EXCEPT ![Original] = NewEncoder(op, nhid)]
    /\ UNCHANGED <<saved, self, input, t, stack, stack_ptr, result, lstm>>

\* Recursive.forward, line 57, entering Recursive_.forward, lines 80-98.
\* Without the attribute recurse the call raises before it does anything.
Call(o, inp) ==
    /\ objs[o] # NoObj
    /\ self' = o
    /\ IF objs[o].recurse = "absent"
       THEN /\ exc' = "AttributeError"
            /\ pc' = "idle"
            /\ input' = << >>
            /\ t' = 0
            /\ stack' = << >>
            /\ stack_ptr' = << >>
            /\ result' = NoResult
       ELSE /\ exc' = "none"
            /\ pc' = "loop"
            /\ input' = inp
            /\ t' = 0
            /\ stack' = NewStack(inp)
            /\ stack_ptr' = NewStackPtr(inp)
            /\ result' = result
    /\ UNCHANGED <<args, objs, saved, lstm>>

\* a forward call on a batch
Forward(o, inp) == pc = "idle" /\ Call(o, inp)

\* a forward call on the batch of the call that has just returned: the
\* caller still holds that call's result, and its stack and pointers are
\* still in memory
Again(o) == pc = "returned" /\ Call(o, input)

\* one pass of the loop body, lines 99-105; an exception unwinds the call
Loop ==
    /\ pc = "loop"
    /\ t < max_length(input)
    /\ LET st == Iteration(objs[self].weights, input, t, Machine)
       IN  IF st.exc = "none"
           THEN /\ stack' = st.stack
                /\ stack_ptr' = st.stack_ptr
                /\ t' = t + 1
                /\ UNCHANGED <<pc, exc, input, result>>
           ELSE /\ exc' = st.exc
                /\ pc' = "idle"
                /\ input' = << >>
                /\ t' = 0
                /\ stack' = << >>
                /\ stack_ptr' = << >>
                /\ result' = NoResult
    /\ UNCHANGED <<args, objs, saved, self, lstm>>

\* line 106
Return ==
    /\ pc = "loop"
    /\ t = max_length(input)
    /\ result' = Roots(stack)
    /\ pc' = "returned"
    /\ UNCHANGED <<args, objs, saved, self, input, t, stack, stack_ptr, exc, lstm>>

\* the caller lets go of the result; the stack and the pointers of the call
\* are gone
Release ==
    /\ pc = "returned"
    /\ pc' = "idle"
    /\ input' = << >>
    /\ t' = 0
    /\ stack' = << >>
    /\ stack_ptr' = << >>
    /\ result' = NoResult
    /\ UNCHANGED <<args, objs, saved, self, exc, lstm>>

\* del self.recurse, line 60
DelRecurse(attrs) == [attrs EXCEPT !.recurse = "absent"]

\* Recursive.__getstate__, lines 59-62: the state is the object's own
\* __dict__, after the del; a del of an attribute that is not there raises
\* its own AttributeError
GetState(o) ==
    /\ pc = "idle"
    /\ objs[o] # NoObj
    /\ IF objs[o].recurse = "absent"
       THEN /\ exc' = "AttributeError in del"
            /\ UNCHANGED <<objs, saved>>
       ELSE /\ exc' = "none"
            /\ objs' = [objs EXCEPT ![o] = DelRecurse(objs[o])]
            /\ saved' = objs'[o]
    /\ UNCHANGED <<pc, args, self, input, t, stack, stack_ptr, result, lstm>>

\* a __setstate__ that does not set recurse again
RestoreNoRecurse(state) == state

\* lines 65-66: torch.jit.export marks self._recurse and returns it
Restore(state) == [state EXCEPT !.recurse = "eager"]

\* Recursive.__setstate__, lines 64-66, on the object unpickling created
SetState ==
    /\ pc = "idle"
    /\ saved # NoObj
    /\ objs[Restored] = NoObj
    /\ objs' = [objs EXCEPT ![Restored] = Restore(saved)]
    /\ exc' = "none"
    /\ UNCHANGED <<pc, args, saved, self, input, t, stack, stack_ptr, result, lstm>>

Next ==
    \/ \E op \in Ops, nhid \in HiddenSizes : Construct(op, nhid)
    \/ \E o \in Objects, inp \in Batches : Forward(o, inp)
    \/ \E o \in Objects : Again(o)
    \/ Loop
    \/ Return
    \/ Release
    \/ \E o \in Objects : GetState(o)
    \/ SetState

Spec == Init /\ [][Next]_vars

(***************************************************************************)
(* LSTMOp.forward as a function of its module and its two arguments.       *)
(* Numbers are fixed-point, in quarters: One stands for 1.0.  The weights  *)
(* of the linear layer are whole numbers, so the layer is exact; sigmoid   *)
(* and tanh are the real functions rounded to the nearest quarter, and a   *)
(* product is rounded to the nearest quarter, as floating point rounds     *)
(* them to the nearest float.  Like their floating-point versions, the     *)
(* rounded sigmoid and tanh reach 0 and 1 exactly at large arguments.      *)
(***************************************************************************)
One == 4

\* the values an element of an argument takes: -1.5 and 0.75
Values == {-6, 3}

\* hidden_size of the encoder, nhid of LSTMOp
LSTMSizes == {2, 4}

\* the vectors of n elements
Vecs(n) == [1..n -> Values]

\* torch.sigmoid, line 31
sigmoid(x) ==
    IF x <= -8 THEN 0
    ELSE IF x <= -3 THEN 1
    ELSE IF x <= 2 THEN 2
    ELSE IF x <= 7 THEN 3
    ELSE One

\* torch.tanh, lines 32 and 34
tanh(x) ==
    LET a == IF x < 0 THEN -x ELSE x
        y == IF a <= 2 THEN a ELSE IF a <= 5 THEN 3 ELSE One
    IN  IF x < 0 THEN -y ELSE y

\* the product of two numbers, lines 33 and 34
Mul(a, b) == (2 * a * b + One) \div (2 * One)

\* v.chunk(n, dim=-1)[k - 1]: piece k of the n equal pieces of v
chunk(v, n, k) ==
    LET m == Len(v) \div n
    IN  [e \in 1..m |-> v[(k - 1) * m + e]]

\* torch.cat of two vectors
cat(u, v) == [e \in 1..(Len(u) + Len(v)) |-> IF e <= Len(u) THEN u[e] ELSE v[e - Len(u)]]

\* the gate pre-activations a test drives to saturation: sigmoid(Sat) is 1.
Sat == 2 * One

\* row k of the weight of a linear layer with 5 * hs rows and 2 * hs
\* columns, and element k of its bias.  "saturated" holds the gates at
\* (1, 0, 0, 1) whatever the input, "remember" at (0, 1, 1, 1); both take
\* the candidate from the visible halves.  "mixed" leaves every gate
\* dependent on the input.
Weight(kind, hs, k, j) ==
    IF kind = "mixed" THEN ((k + j) % 3) - 1
    ELSE IF k <= 4 * hs THEN 0
    ELSE IF j = k - 4 * hs THEN 1
    ELSE IF j = k - 3 * hs THEN -1
    ELSE 0

Bias(kind, hs, k) ==
    IF kind = "mixed" THEN (k % 3) - 1
    ELSE IF k > 4 * hs THEN 0
    ELSE IF kind = "saturated"
         THEN IF k <= hs \/ k > 3 * hs THEN Sat ELSE -Sat
    ELSE IF k <= hs THEN -Sat ELSE Sat

TransformKinds == {"saturated", "remember", "mixed"}

\* LSTMOp(nhid), lines 19-21: hidden_size, and transform with the weights
\* of the given kind
NewLSTMOp(kind, nhid) ==
    LET hs == nhid \div 2
    IN  [hidden_size |-> hs,
         weight |-> [k \in 1..(5 * hs) |-> [j \in 1..nhid |-> Weight(kind, hs, k, j)]],
         bias |-> [k \in 1..(5 * hs) |-> Bias(kind, hs, k)]]

RECURSIVE Dot(_, _, _)
Dot(w, x, n) == IF n = 0 THEN 0 ELSE Dot(w, x, n - 1) + w[n] * x[n]

\* self.transform(h), line 29: nn.Linear
transform(m, x) == [k \in 1..Len(m.bias) |-> Dot(m.weight[k], x, Len(x)) + m.bias[k]]

\* a concatenation of the children's memory halves
visible_memory(left, right) == cat(chunk(left, 2, 2), chunk(right, 2, 2))

\* h of line 28: the children's visible halves, lines 25-26
visible(left, right) == cat(chunk(left, 2, 1), chunk(right, 2, 1))

\* lin_gates of lines 29-30
lin_gates(m, left, right) ==
    SubSeq(transform(m, visible(left, right)), 1, 4 * m.hidden_size)

\* lin_in_c of lines 29-30
lin_in_c(m, left, right) ==
    SubSeq(transform(m, visible(left, right)), 4 * m.hidden_size + 1, 5 * m.hidden_size)

\* torch.sigmoid(lin_gates), line 31: i, f1, f2 and o are its four chunks
gates(m, left, right) ==
    LET lin == lin_gates(m, left, right)
    IN  [k \in 1..Len(lin) |-> sigmoid(lin[k])]

\* in_c, line 32
in_c(m, left, right) ==
    LET lin == lin_in_c(m, left, right)
    IN  [e \in 1..Len(lin) |-> tanh(lin[e])]

\* c, line 33
new_c(m, left, right) ==
    LET g == gates(m, left, right)
        cand == in_c(m, left, right)
        l_c == chunk(left, 2, 2)
        r_c == chunk(right, 2, 2)
    IN  [e \in 1..m.hidden_size |->
            Mul(chunk(g, 4, 1)[e], cand[e]) + Mul(chunk(g, 4, 2)[e], l_c[e])
                + Mul(chunk(g, 4, 3)[e], r_c[e])]

\* LSTMOp.forward, lines 24-35
LSTMOp_forward(m, left, right) ==
    LET c == new_c(m, left, right)
        out_gate == chunk(gates(m, left, right), 4, 4)
        new_h == [e \in 1..m.hidden_size |-> Mul(out_gate[e], tanh(c[e]))]
    IN  cat(new_h, c)

\* an LSTMOp and the two vectors it is about to be called on
InitLSTM ==
    /\ Start
    /\ \E kind \in TransformKinds, nhid \in LSTMSizes :
          \E l \in Vecs(nhid), r \in Vecs(nhid) :
             lstm = [op |-> NewLSTMOp(kind, nhid), left |-> l, right |-> r, out |-> << >>]

\* self.op(left, right): the call of LSTMOp.forward
LSTMForward ==
    /\ lstm # NoLSTM
    /\ lstm.out = << >>
    /\ lstm' = [lstm EXCEPT !.out = LSTMOp_forward(lstm.op, lstm.left, lstm.right)]
    /\ UNCHANGED <<pc, args, objs, saved, self, input, t, stack, stack_ptr, result, exc>>

SpecLSTM == InitLSTM /\ [][LSTMForward]_vars

(***************************************************************************)
(* The bracket tree of a row, read off the row by recursive descent:       *)
(* tree := ordinary token | open tree tree close.  ParseAt gives the value *)
(* of the tree that starts at position i and the position after it.        *)
(***************************************************************************)
Ordinary(id) == id \notin {paren_open, paren_close, padding_idx}
NoTree == [ok |-> FALSE, val |-> Zero, next |-> 0]

RECURSIVE ParseAt(_, _, _)
ParseAt(w, row, i) ==
    IF i > Len(row) THEN NoTree
    ELSE IF Ordinary(row[i]) THEN [ok |-> TRUE, val |-> Emb(w, row[i]), next |-> i + 1]
    ELSE IF row[i] # paren_open THEN NoTree
    ELSE LET l == ParseAt(w, row, i + 1)
         IN  IF ~l.ok THEN NoTree
             ELSE LET r == ParseAt(w, row, l.next)
                  IN  IF r.ok /\ r.next <= Len(row) /\ row[r.next] = paren_close
                      THEN [ok |-> TRUE, val |-> Combine(w, l.val, r.val), next |-> r.next + 1]
                      ELSE NoTree

\* a bracket tree, right-padded
WellBracketed(row) ==
    LET p == ParseAt(Original, row, 1)
    IN  p.ok /\ \A j \in p.next..Len(row) : row[j] = padding_idx

TreeValue(w, row) == ParseAt(w, row, 1).val

AllWellBracketed(inp) == \A b \in 1..batch_size(inp) : WellBracketed(inp[b])

\* the row without its padding positions
Unpadded(row) == SelectSeq(row, LAMBDA id : id # padding_idx)

\* the parameters of the encoder of the current call
W == objs[self].weights

\* C1: when a forward call returns, the root of every well-bracketed row is
\* the bottom-up value of the row's bracket tree: the embedding of the token
\* at a leaf, the combine operator on the values of the left and the right
\* subtree, in this order, at a node.
C1_RootIsTreeValue ==
    pc = "returned" =>
        \A b \in 1..batch_size(input) :
            WellBracketed(input[b]) => result[b] = TreeValue(W, input[b])

\* the batch of rows 2 and 3 of __main__ has returned, with the roots the
\* assertions of __main__ compute
C1_Witness ==
    /\ pc = "returned"
    /\ input = <<(<<0, 0, 2, 3, 1, 0, 2, 2, 1, 1>>), (<<0, 2, 0, 3, 0, 2, 3, 1, 1, 1>>)>>
    /\ result[1] = Combine(W, Combine(W, Emb(W, 2), Emb(W, 3)),
                              Combine(W, Emb(W, 2), Emb(W, 2)))
    /\ result[2] = Combine(W, Emb(W, 2),
                              Combine(W, Emb(W, 3), Combine(W, Emb(W, 2), Emb(W, 3))))

\* a row whose only content is one ordinary token, or an open bracket and
\* one ordinary token
LeafRow(row) ==
    LET u == Unpadded(row)
    IN  \/ Len(u) = 1 /\ Ordinary(u[1]) /\ row[1] = u[1]
        \/ Len(u) = 2 /\ u[1] = paren_open /\ Ordinary(u[2]) /\ row[1] = u[1] /\ row[2] = u[2]

LeafToken(row) == Unpadded(row)[Len(Unpadded(row))]

\* C2: the root returned for a row that holds one ordinary token, with or
\* without an open bracket before it, and padding after it, is the
\* embedding of the token, whatever the other rows of the batch are.
C2_LeafIdentity ==
    pc = "returned" =>
        \A b \in 1..batch_size(input) :
            LeafRow(input[b]) => result[b] = Emb(W, LeafToken(input[b]))

\* an open bracket and a token, next to row 3 of __main__
C2_Witness ==
    /\ pc = "returned"
    /\ batch_size(input) = 2
    /\ Unpadded(input[1]) = <<0, 2>>
    /\ input[2] = <<0, 2, 0, 3, 0, 2, 3, 1, 1, 1>>
    /\ result[1] = Emb(W, 2)

\* C3: in a batch of well-bracketed rows, the root of a row is the root the
\* row gets as a batch of one, with the padding of the batch or without it.
C3_BatchIndependence ==
    (pc = "returned" /\ AllWellBracketed(input)) =>
        \A b \in 1..batch_size(input) :
            /\ <<result[b]>> = Encode(W, <<input[b]>>)
            /\ <<result[b]>> = Encode(W, <<Unpadded(input[b])>>)

\* two rows of different depth and length have returned
C3_Witness ==
    /\ pc = "returned"
    /\ AllWellBracketed(input)
    /\ batch_size(input) = 2
    /\ Unpadded(input[1]) = <<0, 0, 2, 3, 1, 3, 1>>
    /\ Unpadded(input[2]) = <<0, 3, 2, 1>>
    /\ stack_height(input) # stack_height(<<Unpadded(input[2])>>)

\* 1 + the largest number of ordinary tokens of a row
Capacity(inp) ==
    1 + Max({Len(SelectSeq(inp[b], Ordinary)) : b \in 1..batch_size(inp)})

\* C4: in a batch of well-bracketed rows, after every time step, every
\* stack pointer is at least 0 and at most the capacity of the stack, which
\* is 1 + the largest number of ordinary tokens of a row.
C4_PointerInRange ==
    (pc \in {"loop", "returned"} /\ AllWellBracketed(input)) =>
        /\ Height(Machine) = Capacity(input)
        /\ \A b \in 1..batch_size(input) :
              0 <= stack_ptr[b] /\ stack_ptr[b] <= Capacity(input)

\* a row has all its tokens on the stack: the pointer is as high as it gets
C4_Witness ==
    /\ pc = "loop"
    /\ AllWellBracketed(input)
    /\ \E b \in 1..batch_size(input) : stack_ptr[b] = Capacity(input) - 1 /\ stack_ptr[b] >= 3

\* C5: after the last time step, the stack pointer of every well-bracketed
\* row is 1: the root, in slot 0, is the only vector below it.
C5_OneLiveVector ==
    pc = "returned" =>
        \A b \in 1..batch_size(input) : WellBracketed(input[b]) => stack_ptr[b] = 1

\* rows of one and of four leaves have returned with pointer 1
C5_Witness ==
    /\ pc = "returned"
    /\ batch_size(input) = 2
    /\ Unpadded(input[1]) = <<2>>
    /\ Unpadded(input[2]) = <<0, 2, 0, 3, 0, 2, 3, 1, 1, 1>>
    /\ stack_ptr = <<1, 1>>

(***************************************************************************)
(* The loop of Recursive_.forward without the test of do_nothing: step is  *)
(* called at every time step.  RunAll gives the machine after k steps.     *)
(***************************************************************************)
RECURSIVE RunAll(_, _, _)
RunAll(w, inp, k) ==
    IF k = 0 THEN Fresh(inp)
    ELSE LET prev == RunAll(w, inp, k - 1)
         IN  IF prev.exc # "none" THEN prev ELSE step(w, inp, k - 1, prev)

\* C6: the loop that calls step at every time step has, after every step,
\* the stack and the pointers of the loop that skips the steps where every
\* row is at padding or an open bracket, raises where that loop raises, and
\* returns the same roots.
C6_SkipChangesNothing ==
    /\ pc \in {"loop", "returned"} => Machine = RunAll(W, input, t)
    /\ (pc = "loop" /\ t < max_length(input)) =>
          step(W, input, t, Machine) = Iteration(W, input, t, Machine)
    /\ pc = "returned" => result = Roots(RunAll(W, input, max_length(input)).stack)

\* row 2 of __main__ alone: step 5, an open bracket after the first
\* subtree was reduced, has been skipped
C6_Witness ==
    /\ pc = "loop"
    /\ input = <<(<<0, 0, 2, 3, 1, 0, 2, 2, 1, 1>>)>>
    /\ t = 6
    /\ do_nothing(input, 5)
    /\ stack_ptr[1] = 1
    /\ stack[1][0] = Combine(W, Emb(W, 2), Emb(W, 3))

(***************************************************************************)
(* The stack of a row as a list: the values of the complete subtrees of    *)
(* the first k positions, oldest first.                                    *)
(***************************************************************************)
RECURSIVE Forest(_, _, _)
Forest(w, row, k) ==
    IF k = 0 THEN << >>
    ELSE LET f == Forest(w, row, k - 1)
             n == Len(f)
         IN  IF Ordinary(row[k]) THEN Append(f, Emb(w, row[k]))
             ELSE IF row[k] = paren_close /\ n >= 2
                  THEN Append(SubSeq(f, 1, n - 2), Combine(w, f[n - 1], f[n]))
                  ELSE f

\* C7: at a close bracket of a well-bracketed row the pointer is at least
\* 2, and the two slots the reduce reads are below the pointer and hold the
\* values of the two complete subtrees that end there (the right child at
\* pointer-1, the left child at pointer-2): neither an initial zero nor a
\* popped value.
C7_ReduceReadsLive ==
    (pc = "loop" /\ t < max_length(input)) =>
        \A b \in 1..batch_size(input) :
            (WellBracketed(input[b]) /\ close_mask(input, t, b)) =>
                LET p == stack_ptr[b]
                    f == Forest(W, input[b], t)
                IN  /\ p >= 2
                    /\ Len(f) = p
                    /\ RChildIndex(p) \in 0..(p - 1)
                    /\ LChildIndex(p) \in 0..(p - 1)
                    /\ RChildIndex(p) # LChildIndex(p)
                    /\ stack[b][RChildIndex(p)] = f[p]
                    /\ stack[b][LChildIndex(p)] = f[p - 1]
                    /\ stack[b][RChildIndex(p)] # Zero
                    /\ stack[b][LChildIndex(p)] # Zero

\* row 3 of __main__ at its second close bracket: the right child is the
\* result of the reduce before, and the slot above the pointer still holds
\* the popped token
C7_Witness ==
    /\ pc = "loop"
    /\ t = 8
    /\ input[1] = <<0, 2, 0, 3, 0, 2, 3, 1, 1, 1>>
    /\ stack_ptr[1] = 3
    /\ stack[1][2] = Combine(W, Emb(W, 2), Emb(W, 3))
    /\ stack[1][3] = Emb(W, 3)

\* C8: construction fails, with the assertion of LSTMOp, exactly when the
\* operator is LSTMOp and the hidden size is odd; then no encoder object
\* exists, and none ever does.
C8_OddHiddenSizeFails ==
    pc # "start" =>
        /\ objs[Original] = NoObj <=> (args.op = "LSTMOp" /\ args.nhid % 2 = 1)
        /\ objs[Original] = NoObj =>
              (exc = "AssertionError" /\ pc = "idle" /\ \A o \in Objects : objs[o] = NoObj)
        /\ objs[Original] # NoObj =>
              (objs[Original].op = args.op /\ objs[Original].hidden_size = args.nhid)

\* LSTMOp with hidden size 3 has failed
C8_Witness ==
    /\ pc = "idle"
    /\ args = [op |-> "LSTMOp", nhid |-> 3]
    /\ exc = "AssertionError"
    /\ objs[Original] = NoObj

\* C8, the other side: an encoder with RNNOp and an odd hidden size runs
C8_WitnessPlain ==
    /\ pc = "returned"
    /\ args = [op |-> "RNNOp", nhid |-> 3]

\* what C9 says of a state, and of a step that restores an encoder
C9_State ==
    /\ saved # NoObj => saved.recurse = "absent"
    /\ (pc = "returned" /\ self = Restored) =>
          result = Encode(objs[Original].weights, input)
C9_Step ==
    (objs[Restored] = NoObj /\ objs'[Restored] # NoObj) =>
        /\ saved.recurse = "absent"
        /\ objs'[Restored].recurse # "absent"
        /\ [objs'[Restored] EXCEPT !.recurse = "absent"] = saved

\* C9: the state __getstate__ produces does not hold the attribute recurse;
\* __setstate__ gives the restored encoder the saved attributes and a
\* recurse again, and a forward call on the restored encoder returns what
\* Recursive_.forward returns with the original encoder's parameters.
C9_ArtifactRebuilt == [](C9_State) /\ [][C9_Step]_vars

\* the restored encoder has returned the roots of rows 2 and 3 of __main__
C9_Witness ==
    /\ pc = "returned"
    /\ self = Restored
    /\ saved # NoObj
    /\ objs[Restored].recurse = "eager"
    /\ input = <<(<<0, 0, 2, 3, 1, 0, 2, 2, 1, 1>>), (<<0, 2, 0, 3, 0, 2, 3, 1, 1, 1>>)>>
    /\ result[1] = Combine(Original, Combine(Original, Emb(Original, 2), Emb(Original, 3)),
                           Combine(Original, Emb(Original, 2), Emb(Original, 2)))

\* C10: a forward call starts with a stack of zeros of the size its own
\* batch asks for and with pointers 0; what it returns is a function of its
\* batch and the encoder's parameters; and a call on the batch of the call
\* before, whose result the caller still holds, is about to return that
\* same result.
C10_NoStateAcrossCalls ==
    /\ (pc = "loop" /\ t = 0) =>
          /\ stack = [b \in 1..batch_size(input) |->
                         [i \in 0..(Capacity(input) - 1) |-> Zero]]
          /\ stack_ptr = [b \in 1..batch_size(input) |-> 0]
    /\ pc = "returned" => result = Encode(W, input)
    /\ (pc = "loop" /\ t = max_length(input) /\ result # NoResult) =>
          Roots(stack) = result

\* the second call in a row on the batch of rows 2 and 3 of __main__ is
\* about to return
C10_Witness ==
    /\ pc = "loop"
    /\ t = max_length(input)
    /\ result # NoResult
    /\ input = <<(<<0, 0, 2, 3, 1, 0, 2, 2, 1, 1>>), (<<0, 2, 0, 3, 0, 2, 3, 1, 1, 1>>)>>
    /\ Roots(stack) = result
    /\ result[2] = TreeValue(W, input[2])

\* a pass of the loop that did not raise
LoopStep == pc = "loop" /\ pc' = "loop" /\ t' = t + 1

\* C13: in a pass of the loop, a row at padding or at an open bracket keeps
\* its stack and its pointer; a row at an ordinary token gets the token's
\* embedding in slot stack_ptr, and nothing else, and its pointer goes up
\* by 1; a row at a close bracket gets combine(stack[ptr-2], stack[ptr-1])
\* in slot stack_ptr-2, and nothing else, and its pointer goes down by 1.
\* What a row gets depends on no other row.
C13_StepFrame ==
    [][LoopStep =>
        \A b \in 1..batch_size(input) :
            LET id == Tok(input, t, b)
                p == stack_ptr[b]
                n == Height(Machine)
                at(i) == Wrap(i, n)
            IN  IF id = padding_idx \/ id = paren_open
                THEN stack'[b] = stack[b] /\ stack_ptr'[b] = p
                ELSE IF id = paren_close
                THEN /\ stack_ptr'[b] = p - 1
                     /\ stack'[b] = [stack[b] EXCEPT ![at(p - 2)] =
                                        Combine(W, stack[b][at(p - 2)], stack[b][at(p - 1)])]
                ELSE /\ stack_ptr'[b] = p + 1
                     /\ stack'[b] = [stack[b] EXCEPT ![at(p)] = Emb(W, id)]
      ]_vars

\* rows 2 and 3 of __main__ after step 4: row 2 was reduced while row 3, at
\* an open bracket, kept its two tokens
C13_Witness ==
    /\ pc = "loop"
    /\ t = 5
    /\ input = <<(<<0, 0, 2, 3, 1, 0, 2, 2, 1, 1>>), (<<0, 2, 0, 3, 0, 2, 3, 1, 1, 1>>)>>
    /\ stack_ptr = <<1, 2>>
    /\ stack[1][0] = Combine(W, Emb(W, 2), Emb(W, 3))
    /\ stack[1][1] = Emb(W, 3)
    /\ stack[2][0] = Emb(W, 2) /\ stack[2][1] = Emb(W, 3) /\ stack[2][2] = Zero

\* the first k positions of the row hold all that is not padding, and
\* there is some
Completed(row, k) ==
    /\ \E j \in 1..k : row[j] # padding_idx
    /\ \A j \in (k + 1)..Len(row) : row[j] = padding_idx

\* C14: from the time step that processes the last position of a
\* well-bracketed row that is not padding, the row's pointer is 1 and its
\* slot 0 holds the value of its tree, at every later time step, whatever
\* the other rows still shift and reduce; that value is what is returned.
C14_CompletedRowStays ==
    pc \in {"loop", "returned"} =>
        \A b \in 1..batch_size(input) :
            (WellBracketed(input[b]) /\ Completed(input[b], t)) =>
                /\ stack_ptr[b] = 1
                /\ stack[b][0] = TreeValue(W, input[b])
                /\ pc = "returned" => result[b] = stack[b][0]

\* a tree of two leaves, complete since step 3, while row 3 of __main__ is
\* about to be reduced a second time
C14_Witness ==
    /\ pc = "loop"
    /\ t = 8
    /\ Unpadded(input[1]) = <<0, 3, 2, 1>>
    /\ input[2] = <<0, 2, 0, 3, 0, 2, 3, 1, 1, 1>>
    /\ stack_ptr = <<1, 3>>
    /\ stack[1][0] = Combine(W, Emb(W, 3), Emb(W, 2))

\* C15: a forward call on an encoder whose __getstate__ has been called
\* (as torch.save calls it) runs as before the save: it does not raise for
\* want of the attribute recurse, which line 57 calls.
C15_ForwardAfterSaveRuns == exc # "AttributeError"

\* C16: in a batch of well-bracketed rows, every index a pass of the loop
\* computes, for the rows it masks out as for the others (stack_ptr when
\* some row shifts; stack_ptr-1 and stack_ptr-2 when some row reduces), is
\* in -capacity..capacity-1; the pass raises nothing; and the rows at
\* padding or an open bracket keep their stack and pointer.
C16_IndexesInRange ==
    (pc = "loop" /\ t < max_length(input) /\ AllWellBracketed(input)) =>
        LET n == Capacity(input)
            after == step(W, input, t, Machine)
            in(i) == -n <= i /\ i <= n - 1
        IN  /\ Height(Machine) = n
            /\ \A b \in 1..batch_size(input) :
                  /\ any(is_token(input, t)) => in(ShiftIndex(stack_ptr[b]))
                  /\ any(is_close(input, t)) =>
                        /\ in(RChildIndex(stack_ptr[b]))
                        /\ in(LChildIndex(stack_ptr[b]))
                        /\ in(ParentIndex(stack_ptr[b]))
                  /\ (~token_mask(input, t, b) /\ ~close_mask(input, t, b)) =>
                        /\ after.stack[b] = stack[b]
                        /\ after.stack_ptr[b] = stack_ptr[b]
            /\ after.exc = "none"

\* row 3 of __main__ is about to be reduced while the other row, complete
\* with pointer 1, is masked out: its index stack_ptr-2 is -1
C16_Witness ==
    /\ pc = "loop"
    /\ t = 7
    /\ AllWellBracketed(input)
    /\ Unpadded(input[1]) = <<0, 3, 2, 1>>
    /\ input[2] = <<0, 2, 0, 3, 0, 2, 3, 1, 1, 1>>
    /\ close_mask(input, t, 2) /\ ~length_mask(input, t, 1)
    /\ LChildIndex(stack_ptr[1]) = -1

\* the row without its open brackets and its padding
Stripped(row) == SelectSeq(row, LAMBDA id : id # padding_idx /\ id # paren_open)

\* the batch with row b replaced by its ordinary tokens and close brackets
\* alone, padded to the length of the batch
WithoutOpens(inp, b) == [inp EXCEPT ![b] = PadTo(Stripped(inp[b]), max_length(inp))]

\* C17: a row and the row of its ordinary tokens and close brackets alone
\* (every row with the same tokens and close brackets in the same order is
\* such a row with open brackets and padding put in) end with the same
\* stack, the same pointer and the same root, the rest of the batch being
\* the same.
C17_OpenBracketsIgnored ==
    (pc = "returned" \/ (pc = "loop" /\ t = max_length(input))) =>
        \A b \in 1..batch_size(input) :
            LET other == Run(W, WithoutOpens(input, b), max_length(input))
            IN  /\ other.exc = "none"
                /\ other.stack[b] = stack[b]
                /\ other.stack_ptr[b] = stack_ptr[b]
                /\ pc = "returned" => result[b] = Roots(other.stack)[b]

\* row 2 of __main__, four open brackets, has returned what the row of its
\* seven other positions returns
C17_Witness ==
    /\ pc = "returned"
    /\ input = <<(<<0, 0, 2, 3, 1, 0, 2, 2, 1, 1>>)>>
    /\ WithoutOpens(input, 1) = <<(<<2, 3, 1, 2, 2, 1, 1, 4, 4, 4>>)>>
    /\ result = Encode(W, WithoutOpens(input, 1))
    /\ result[1] = Combine(W, Combine(W, Emb(W, 2), Emb(W, 3)),
                              Combine(W, Emb(W, 2), Emb(W, 2)))

\* the calls that differ from the call of lstm in the children's memory
\* halves only
OtherMemories ==
    LET hs == lstm.op.hidden_size
    IN  {[left |-> cat(chunk(lstm.left, 2, 1), m1), right |-> cat(chunk(lstm.right, 2, 1), m2)] :
            m1 \in Vecs(hs), m2 \in Vecs(hs)}

\* the gates of a call are (1, 0, 0, 1) in every element
Saturated(g) ==
    \A e \in 1..(Len(g) \div 4) :
       /\ chunk(g, 4, 1)[e] = One
       /\ chunk(g, 4, 2)[e] = 0
       /\ chunk(g, 4, 3)[e] = 0
       /\ chunk(g, 4, 4)[e] = One

\* C12: the memory half of what LSTMOp.forward returns is, element by
\* element, input gate * candidate + left forget gate * left memory +
\* right forget gate * right memory; the gates and the candidate are the
\* same for every call with the same visible halves, whatever the memory
\* halves; and when the gates are (1, 0, 0, 1) the memory half is the
\* candidate, for every memory half of either child.
C12_MemoryConservation ==
    (lstm # NoLSTM /\ lstm.out # << >>) =>
        LET m == lstm.op
            hs == m.hidden_size
            g == gates(m, lstm.left, lstm.right)
            cand == in_c(m, lstm.left, lstm.right)
            memory(v) == chunk(v, 2, 2)
        IN  /\ Len(lstm.out) = 2 * hs
            /\ \A e \in 1..hs :
                  memory(lstm.out)[e] =
                      Mul(g[e], cand[e]) + Mul(g[hs + e], lstm.left[hs + e])
                          + Mul(g[2 * hs + e], lstm.right[hs + e])
            /\ \A a \in OtherMemories :
                  /\ gates(m, a.left, a.right) = g
                  /\ in_c(m, a.left, a.right) = cand
            /\ Saturated(g) =>
                  /\ memory(lstm.out) = cand
                  /\ \A a \in OtherMemories :
                        memory(LSTMOp_forward(m, a.left, a.right)) = cand

\* nhid 4, gates (1, 0, 0, 1), children with memory, a candidate that is
\* not zero
C12_Witness ==
    /\ lstm # NoLSTM
    /\ lstm.op = NewLSTMOp("saturated", 4)
    /\ lstm.left = <<3, -6, -6, 3>>
    /\ lstm.right = <<-6, -6, 3, -6>>
    /\ Saturated(gates(lstm.op, lstm.left, lstm.right))
    /\ in_c(lstm.op, lstm.left, lstm.right) = <<One, 0>>
    /\ lstm.out = <<3, 0, One, 0>>
====
